---------------------------- MODULE Spec2Model ----------------------------
(* Model of the research-search core of researchhub-pro:                   *)
(*   app/api/v1/research.py      the /search handler (PerformSearch)       *)
(*   app/services/search_router  the provider cascade (SearchOrchestrator) *)
(*   app/services/exa_service    the Perplexity adapter, cache decorator   *)
(*                               and rate limiter                          *)
(*   app/services/serpapi_service, app/services/ai_service                 *)
(*   app/services/cache_service  the Redis cache                           *)
(*   app/models/user.py          the daily quota guard                     *)
(* Time is in seconds. Scores are in hundredths (0.85 is 85).              *)
EXTENDS Integers, Sequences, FiniteSets, TLC

\* ------------------------------------------------------------------ bounds
\* Requests one specification serves before it stops accepting new ones.
MaxRequests == 2
\* Clock advances one behaviour makes.
MaxTicks == 1
\* Searches made on the long-lived adapters of one process.
MaxCalls == 2
\* Clock advances between those searches.
MaxAdapterTicks == 1
\* Operations of the quota guard on one user.
MaxGuardOps == 4
\* The largest ceiling the long-lived rate limiter is run with.
MaxCeiling == 1

\* ------------------------------------------------------- program constants
\* Python's None for an optional timestamp.
None == -1
SecondsPerDay == 86400
\* The clock at the start: 23:45:00 UTC of some day, so that a quarter of an
\* hour later the UTC date has changed.
Clock0 == 172800 - 900
RateWindow == 60
DefaultMaxPerMinute == 60
PerplexityCacheTTL == 900
MAX_SEARCH_RESULTS == 100
FreeDailySearches == 10
ProDailySearches == 100
Unlimited == -1

Providers == <<"openai", "perplexity", "serpapi">>
ProviderNames == {"openai", "perplexity", "serpapi"}
Tiers == {"free", "pro", "enterprise"}

\* ------------------------------------------------------------------ inputs
\* The query of a request, after strip(): empty or not.
Queries == {"", "climate policy"}
\* num_results of a request.
NumResultsInputs == {0, 3, 10}
\* How many items (citations, organic results, suggestion lines) an upstream
\* answer holds.
UpstreamCounts == {0, 4}
\* What a network call to an upstream API ends in: a transport failure
\* (a timeout, no connection, or requests refusing a malformed URL before
\* anything is sent, "invalid_url"), or an
\* HTTP status with a body that is JSON of the expected shape ("json"), not
\* JSON at all ("text"), or JSON of another shape, e.g. a list ("list").
UpstreamResponses ==
    {[transport |-> "timeout", status |-> 0, body |-> "", n |-> 0],
     [transport |-> "connection", status |-> 0, body |-> "", n |-> 0],
     [transport |-> "invalid_url", status |-> 0, body |-> "", n |-> 0],
     [transport |-> "ok", status |-> 401, body |-> "text", n |-> 0],
     [transport |-> "ok", status |-> 429, body |-> "text", n |-> 0],
     [transport |-> "ok", status |-> 503, body |-> "text", n |-> 0],
     [transport |-> "ok", status |-> 200, body |-> "text", n |-> 0],
     [transport |-> "ok", status |-> 200, body |-> "list", n |-> 0]}
    \cup {[transport |-> "ok", status |-> 200, body |-> "json", n |-> c] :
              c \in UpstreamCounts}

\* The answers provider p can meet: the URL of SerpAPI is a constant of the
\* code, the base URL of Perplexity and the setup of the OpenAI client come
\* from the configuration.
Possible(p, up) == p = "serpapi" => up.transport # "invalid_url"

\* The answers the /search requests of the model meet: one of each class of
\* failure, and the good answers.
RequestResponses ==
    {up \in UpstreamResponses :
        up.transport # "connection" /\ ~(up.status = 200 /\ up.body = "text")}

\* ----------------------------------------------------------------- helpers
Min(a, b) == IF a <= b THEN a ELSE b
Max(a, b) == IF a >= b THEN a ELSE b

\* A slice that cuts nothing off.
SliceLenWhole(n, k) == n

\* len(seq[:k]) for a sequence of length n, as Python slices: a negative k
\* counts from the end.
SliceLen(n, k) == IF k >= 0 THEN Min(n, k) ELSE Max(n + k, 0)

\* bool(t) of an optional timestamp: None and 0 are falsy.
Truthy(t) == t # None /\ t # 0

\* datetime.date() of a timestamp, as a day number.
DateOf(t) == t \div SecondsPerDay

\* ------------------------------------------------------------- exceptions
\* An exception: its class, its message, and the class of the exception it
\* was raised from (`raise ... from exc`), "" when there is none.
NoExc == [cls |-> "", msg |-> "", cause |-> ""]
Raise(c, m) == [cls |-> c, msg |-> m, cause |-> ""]
RaiseFrom(c, m, cause) == [cls |-> c, msg |-> m, cause |-> cause]

\* The class of the requests exception a failed transport raises.
TransportException(up) ==
    CASE up.transport = "timeout" -> "Timeout"
      [] up.transport = "connection" -> "ConnectionError"
      [] OTHER -> "MissingSchema"

\* A test that every exception passes, as `except Exception` would.
IsAnyException(exc) == exc.cls # ""

\* isinstance(exc, ExternalAPIError): RateLimitError and ExternalAPIError are
\* siblings under ResearchHubException, neither derives from the other.
IsExternalAPIError(exc) == exc.cls = "ExternalAPIError"
IsRateLimitError(exc) == exc.cls = "RateLimitError"

\* ---------------------------------------------------------------- results
\* A result dict: the scores of its results in order (None for a score the
\* upstream did not give), total_results, and the fallback keys.
NoResult ==
    [results |-> <<>>, total_results |-> 0, search_type |-> "",
     fallback |-> FALSE, has_reason |-> FALSE, fallback_reason |-> ""]

Returned(res) == [ok |-> TRUE, result |-> res, exc |-> NoExc]
Raised(e) == [ok |-> FALSE, result |-> NoResult, exc |-> e]


\* --------------------------------------------------- AIService / OpenAI
\* AIService.suggest_related_queries: the number of suggestions it returns.
\* Whatever goes wrong in the OpenAI call is caught and gives the empty list.
suggest_related_queries(openai_key, up, num_suggestions) ==
    IF openai_key = "" THEN 0
    ELSE IF up.transport = "ok" /\ up.status = 200 /\ up.body = "json"
         THEN Min(up.n, num_suggestions)
         ELSE 0

\* OpenAISearchProvider.search, once available() has held.
OpenAISearch(openai_key, up, num_results, search_type) ==
    LET suggestions ==
            suggest_related_queries(openai_key, up, Max(3, Min(num_results, 8)))
        k == SliceLen(suggestions, num_results)
    IN  IF suggestions = 0
        THEN Raised(Raise("ExternalAPIError", "OpenAI did not return related queries."))
        ELSE Returned([NoResult EXCEPT
                 !.results = [i \in 1..k |-> Max(45, 85 - (i - 1) * 8)],
                 !.total_results = k,
                 !.search_type = search_type])

\* ------------------------------------------------------- Perplexity adapter
\* PerplexitySearchService._generate_cache_key for search(query=, num_results=,
\* search_type=): the md5 of the function name and the sorted keyword
\* arguments, which differs whenever one of them differs.
PerplexityCacheKey(query, num_results, search_type) ==
    <<"perplexity", "search", num_results, query, search_type>>

\* A fresh PerplexitySearchService: its rate-limit fields.
NewService == [request_count |-> 0, last_request_time |-> None]

\* A limiter that rejects only above the ceiling.
CheckRateLimitAboveCeiling(svc, t, max_per_minute) ==
    IF Truthy(svc.last_request_time) /\ t - svc.last_request_time < RateWindow
    THEN IF svc.request_count > max_per_minute
         THEN [admitted |-> FALSE, svc |-> svc]
         ELSE [admitted |-> TRUE,
               svc |-> [request_count |-> svc.request_count + 1,
                        last_request_time |-> t]]
    ELSE [admitted |-> TRUE,
          svc |-> [request_count |-> 1, last_request_time |-> t]]

\* A limiter whose rejections restart the window.
CheckRateLimitStampsRejection(svc, t, max_per_minute) ==
    IF Truthy(svc.last_request_time) /\ t - svc.last_request_time < RateWindow
    THEN IF svc.request_count >= max_per_minute
         THEN [admitted |-> FALSE, svc |-> [svc EXCEPT !.last_request_time = t]]
         ELSE [admitted |-> TRUE,
               svc |-> [request_count |-> svc.request_count + 1,
                        last_request_time |-> t]]
    ELSE [admitted |-> TRUE,
          svc |-> [request_count |-> 1, last_request_time |-> t]]

\* PerplexitySearchService._check_rate_limit at time t: whether the call is
\* admitted, and the service fields afterwards.
CheckRateLimit(svc, t, max_per_minute) ==
    IF Truthy(svc.last_request_time) /\ t - svc.last_request_time < RateWindow
    THEN IF svc.request_count >= max_per_minute
         THEN [admitted |-> FALSE, svc |-> svc]
         ELSE [admitted |-> TRUE,
               svc |-> [request_count |-> svc.request_count + 1,
                        last_request_time |-> t]]
    ELSE [admitted |-> TRUE,
          svc |-> [request_count |-> 1, last_request_time |-> t]]

\* PerplexitySearchService.search up to the network call: the checks of the
\* arguments and the rate limiter. proceed says the network call is made.
PerplexityBefore(svc, api_key, query, t, max_per_minute) ==
    IF query = ""
    THEN [proceed |-> FALSE, svc |-> svc,
          exc |-> Raise("ExternalAPIError", "Query is required for search.")]
    ELSE IF api_key = ""
    THEN [proceed |-> FALSE, svc |-> svc,
          exc |-> Raise("ExternalAPIError", "Perplexity API key not configured.")]
    ELSE LET rl == CheckRateLimit(svc, t, max_per_minute)
         IN  IF rl.admitted
             THEN [proceed |-> TRUE, svc |-> rl.svc, exc |-> NoExc]
             ELSE [proceed |-> FALSE, svc |-> rl.svc,
                   exc |-> Raise("RateLimitError",
                       "Perplexity rate limit exceeded. Please wait before retrying.")]

\* PerplexitySearchService.search from the answer of the network call on.
PerplexityAfter(up, num_results, search_type) ==
    IF up.transport = "timeout"
    THEN Raised(RaiseFrom("ExternalAPIError",
                          "Perplexity timed out while processing the request.",
                          TransportException(up)))
    ELSE IF up.transport # "ok"
    THEN Raised(RaiseFrom("ExternalAPIError",
                          "Unable to reach Perplexity. Check your network connection.",
                          TransportException(up)))
    ELSE IF up.status = 429
    THEN Raised(Raise("RateLimitError",
                      "Perplexity rate limit reached. Please retry shortly."))
    ELSE IF up.status = 401
    THEN Raised(Raise("ExternalAPIError",
             "Perplexity rejected the API key. Double-check the value in Settings and try again."))
    ELSE IF up.status >= 400
    THEN Raised(Raise("ExternalAPIError",
                      "Perplexity could not complete the search request."))
    ELSE IF up.body = "text"
    THEN Raised(RaiseFrom("ExternalAPIError",
                          "Perplexity returned an invalid response.", "ValueError"))
    ELSE IF up.body = "list"
    THEN Raised(Raise("AttributeError", "'list' object has no attribute 'get'"))
    ELSE LET top_k == Max(1, Min(num_results, 20))
             k == Min(up.n, top_k)
         IN  Returned([NoResult EXCEPT
                 !.results = [i \in 1..k |-> None],
                 !.total_results = k,
                 !.search_type = search_type])

\* ---------------------------------------------------------- SerpAPI adapter
\* SerpAPISearchService.search from the answer of the network call on; the
\* service has neither a cache nor a rate limiter.
SerpAPIAfter(up, num_results, search_type) ==
    IF up.transport = "timeout"
    THEN Raised(RaiseFrom("ExternalAPIError", "SerpAPI request timed out.",
                          TransportException(up)))
    ELSE IF up.transport # "ok"
    THEN Raised(RaiseFrom("ExternalAPIError", "Unable to reach SerpAPI.",
                          TransportException(up)))
    ELSE IF up.status = 429
    THEN Raised(Raise("RateLimitError",
                      "SerpAPI rate limit reached. Please retry shortly."))
    ELSE IF up.status = 401
    THEN Raised(Raise("ExternalAPIError", "SerpAPI rejected the API key."))
    ELSE IF up.status >= 400
    THEN Raised(Raise("ExternalAPIError",
                      "SerpAPI could not complete the search request."))
    ELSE IF up.body = "text"
    THEN Raised(RaiseFrom("ExternalAPIError",
                          "SerpAPI returned an invalid response.", "ValueError"))
    ELSE IF up.body = "list"
    THEN Raised(Raise("AttributeError", "'list' object has no attribute 'get'"))
    ELSE LET k == SliceLen(up.n, num_results)
         IN  Returned([NoResult EXCEPT
                 !.results = [i \in 1..k |-> Max(30, 90 - (i - 1) * 10)],
                 !.total_results = k,
                 !.search_type = search_type])

\* ------------------------------------------------------ fallback synthesizer
\* build_fallback_search_results without the floor of one item.
build_fallback_no_floor(num_results, reason) ==
    LET max_items == Max(0, Min(num_results, 5))
    IN  [results |-> [i \in 1..max_items |-> Max(30, 100 - (i - 1) * 12)],
         total_results |-> max_items,
         search_type |-> "offline-fallback",
         fallback |-> TRUE,
         has_reason |-> TRUE,
         fallback_reason |-> reason]

\* build_fallback_search_results
build_fallback_search_results(num_results, reason) ==
    LET max_items == Max(1, Min(num_results, 5))
    IN  [results |-> [i \in 1..max_items |-> Max(30, 100 - (i - 1) * 12)],
         total_results |-> max_items,
         search_type |-> "offline-fallback",
         fallback |-> TRUE,
         has_reason |-> TRUE,
         fallback_reason |-> reason]

\* ------------------------------------------------------------------- cache
\* CacheService.get at time t: the cached value, or no hit. Redis drops an
\* entry once its TTL has run out; an unreachable Redis gives None.
CacheHit(c, up, key, t) == up /\ key \in DOMAIN c /\ t < c[key].expires
CacheGet(c, key) == c[key].value

\* CacheService.set: setex(key, ttl, value); a no-op when Redis is unreachable.
CacheSet(c, up, key, value, t, ttl) ==
    IF up
    THEN [k \in DOMAIN c \cup {key} |->
             IF k = key THEN [value |-> value, expires |-> t + ttl] ELSE c[k]]
    ELSE c

\* A wrapper that stores whatever the wrapped search ended in.
CacheStoreAlways(c, up, key, got, t) ==
    CacheSet(c, up, key, got.result, t, PerplexityCacheTTL)

\* The end of the cache_result wrapper of PerplexitySearchService.search: the
\* result the wrapped search returned is stored; an exception passes through
\* the wrapper and nothing is stored.
CacheStore(c, up, key, got, t) ==
    IF got.ok THEN CacheSet(c, up, key, got.result, t, PerplexityCacheTTL) ELSE c

\* Redis expiry at time t: the entries still alive.
Expire(c, t) == [k \in {j \in DOMAIN c : t < c[j].expires} |-> c[k]]

\* --------------------------------------------------------------- quota guard
\* Config.USER_TIERS[tier]['daily_searches']
DailyLimit(tier) ==
    CASE tier = "free" -> FreeDailySearches
      [] tier = "pro" -> ProDailySearches
      [] OTHER -> Unlimited

\* can_search without the reset on a new day.
can_search_no_rollover(u, t) ==
    IF DailyLimit(u.tier) = Unlimited
    THEN [allowed |-> TRUE, u |-> u]
    ELSE [allowed |-> u.searches_today < DailyLimit(u.tier), u |-> u]

\* can_search that admits a user who is at the limit.
can_search_at_limit(u, t) ==
    IF DailyLimit(u.tier) = Unlimited
    THEN [allowed |-> TRUE, u |-> u]
    ELSE LET v == IF u.last_search_date = None \/ DateOf(u.last_search_date) < DateOf(t)
                  THEN [u EXCEPT !.searches_today = 0, !.last_search_date = t]
                  ELSE u
         IN  [allowed |-> v.searches_today <= DailyLimit(u.tier), u |-> v]

\* User.can_search at time t: the answer, and the user object afterwards (the
\* rollover reset is written to the object).
can_search(u, t) ==
    IF DailyLimit(u.tier) = Unlimited
    THEN [allowed |-> TRUE, u |-> u]
    ELSE LET v == IF u.last_search_date = None \/ DateOf(u.last_search_date) < DateOf(t)
                  THEN [u EXCEPT !.searches_today = 0, !.last_search_date = t]
                  ELSE u
         IN  [allowed |-> v.searches_today < DailyLimit(u.tier), u |-> v]

\* increment_search_count that counts on from yesterday's value.
increment_without_reset(u, t) ==
    [u EXCEPT !.searches_today = u.searches_today + 1, !.last_search_date = t]

\* User.increment_search_count at time t
increment_search_count(u, t) ==
    LET base == IF u.last_search_date = None \/ DateOf(u.last_search_date) < DateOf(t)
                THEN 0
                ELSE u.searches_today
    IN  [u EXCEPT !.searches_today = base + 1, !.last_search_date = t]

\* ------------------------------------------------------------- credentials
\* get_services: the key each service is built with, from the user's stored
\* keys and the configured keys ("" where there is none).
get_services(user_keys, cfg) ==
    [openai |-> IF user_keys.openai # "" THEN user_keys.openai ELSE cfg.OPENAI_API_KEY,
     perplexity |->
         IF user_keys.perplexity = "" /\ cfg.PERPLEXITY_API_KEY # ""
         THEN cfg.PERPLEXITY_API_KEY
         ELSE IF cfg.PERPLEXITY_SHARED_API_KEY # ""
         THEN cfg.PERPLEXITY_SHARED_API_KEY
         ELSE user_keys.perplexity,
     serpapi |-> IF user_keys.serpapi # "" THEN user_keys.serpapi ELSE cfg.SERPAPI_API_KEY]

\* SearchProvider.available of each provider: bool(key).
available(keys, p) == keys[p] # ""

\* The first lines of each provider's search: without a key it raises.
NotConfigured(p) ==
    CASE p = "openai" ->
             Raise("ExternalAPIError", "OpenAI integration is not configured.")
      [] p = "perplexity" ->
             Raise("ExternalAPIError", "Perplexity integration is not configured.")
      [] OTHER -> Raise("ExternalAPIError", "SerpAPI integration is not configured.")

\* =================================================================== state
VARIABLES
    now,        \* the clock (time.time(), datetime.utcnow()), in seconds
    ticks,      \* how often the clock has advanced
    user,       \* the user's row in the database
    cache,      \* the Redis cache: key -> [value, expires]
    ceiling,    \* max_per_minute of the Perplexity rate limiter
    served,     \* how many /search requests have been accepted
    req,        \* per worker: the /search request it is handling
    inst,       \* a long-lived PerplexitySearchService: its limiter fields
    instCalls,  \* how many searches the long-lived adapters have served
    instLog,    \* what each of those searches did, in order
    guard,      \* the last operation of the quota guard, with what it was given
    creds,      \* a resolution of credentials by get_services
    applied     \* the calls a specification makes of one function on its
                \* own, in order: what each was given and what it gave

vars == <<now, ticks, user, cache, ceiling, served, req, inst, instCalls, instLog,
          guard, creds, applied>>

Workers == {1, 2}

NoOutcome ==
    [state |-> "none", result |-> NoResult, engine_used |-> "",
     attempts |-> <<>>, errors |-> <<>>, fallback |-> FALSE, exc |-> NoExc]

\* The response of the handler: the status, the error text, and the
\* fallback_reason key of the body: absent, the text the synthesizer was given
\* ("builder"), or the provider errors joined by "; " ("joined").
NoResponse ==
    [status |-> 0, error |-> "", reason_kind |-> "absent",
     reason_text |-> "", reason_errors |-> <<>>]

NoKeys == [openai |-> "", perplexity |-> "", serpapi |-> ""]

\* What the search of each provider did in this request: nothing yet
\* ("none"), returned a result ("ok"), or raised exc ("raised").
NoAnswers == [p \in ProviderNames |-> [state |-> "none", exc |-> NoExc]]
Answered(rq, p, got) ==
    [rq EXCEPT !.answers[p] =
        [state |-> IF got.ok THEN "ok" ELSE "raised", exc |-> got.exc]]

\* No operation of the quota guard yet.
NoGuard ==
    [op |-> "none", t |-> 0, allowed |-> FALSE,
     before |-> [tier |-> "free", searches_today |-> 0, last_search_date |-> None],
     after |-> [tier |-> "free", searches_today |-> 0, last_search_date |-> None]]

\* No credentials resolved yet.
NoConfig ==
    [OPENAI_API_KEY |-> "", PERPLEXITY_API_KEY |-> "",
     PERPLEXITY_SHARED_API_KEY |-> "", SERPAPI_API_KEY |-> ""]
NoCreds ==
    [resolved |-> FALSE, user_keys |-> NoKeys, cfg |-> NoConfig, keys |-> NoKeys]

IdleRequest ==
    [pc |-> "idle", query |-> "", num_results |-> 0, search_type |-> "auto",
     fallback_enabled |-> TRUE, keys |-> NoKeys,
     u |-> [tier |-> "free", searches_today |-> 0, last_search_date |-> None],
     svc |-> NewService, idx |-> 1, attempts |-> <<>>, errors |-> <<>>,
     probed |-> {}, invoked |-> {}, answers |-> NoAnswers, builder_calls |-> 0,
     orch |-> NoOutcome, resp |-> NoResponse]

\* The users the database can hold at the start: a new user, or one who has
\* searched before, today or yesterday, within the limit of the tier.
InitialUsers ==
    {[tier |-> t, searches_today |-> 0, last_search_date |-> None] :
         t \in {"free", "enterprise"}}
    \cup {[tier |-> "free", searches_today |-> FreeDailySearches - 1,
              last_search_date |-> Clock0 - 60],
             [tier |-> "free", searches_today |-> FreeDailySearches,
              last_search_date |-> Clock0 - 60],
             [tier |-> "free", searches_today |-> FreeDailySearches,
              last_search_date |-> Clock0 - SecondsPerDay]}

Init ==
    /\ now = Clock0
    /\ ticks = 0
    /\ user \in InitialUsers
    /\ cache = << >>
    /\ ceiling = DefaultMaxPerMinute
    /\ served = 0
    /\ req = [r \in Workers |-> IdleRequest]
    /\ inst = NewService
    /\ instCalls = 0
    /\ instLog = << >>
    /\ guard = NoGuard
    /\ creds = NoCreds
    /\ applied = << >>

\* ------------------------------------------------------------ orchestrator
\* NextAvailable without the availability test: no provider is skipped.
NextAvailableNoSkip(keys, i) == Min(i, Len(Providers) + 1)

\* The index of the first provider from position i on that is available, or
\* Len(Providers) + 1 when there is none: the providers the loop of
\* SearchOrchestrator.search skips.
NextAvailable(keys, i) ==
    LET S == {j \in i..Len(Providers) : available(keys, Providers[j])}
    IN  IF S = {} THEN Len(Providers) + 1
        ELSE CHOOSE j \in S : \A k \in S : j <= k

\* The providers whose available() the loop calls when it goes from position
\* i to position j.
Probed(i, j) == {Providers[k] : k \in i..Min(j, Len(Providers))}

\* OrchReturn with the name of the first declared provider as engine_used.
OrchReturnFirstName(rq, result) ==
    [state |-> "returned", result |-> result,
     engine_used |-> Providers[1], attempts |-> rq.attempts,
     errors |-> rq.errors, fallback |-> FALSE, exc |-> NoExc]

\* OrchReturn that hands back an empty error list on success.
OrchReturnNoErrors(rq, result) ==
    [state |-> "returned", result |-> result,
     engine_used |-> Providers[rq.idx], attempts |-> rq.attempts,
     errors |-> <<>>, fallback |-> FALSE, exc |-> NoExc]

\* SearchOrchestrator.search returns a provider's result.
OrchReturn(rq, result) ==
    [state |-> "returned", result |-> result,
     engine_used |-> Providers[rq.idx], attempts |-> rq.attempts,
     errors |-> rq.errors, fallback |-> FALSE, exc |-> NoExc]

\* An exception leaves SearchOrchestrator.search.
OrchRaise(rq, exc) ==
    [state |-> "raised", result |-> NoResult, engine_used |-> "",
     attempts |-> rq.attempts, errors |-> rq.errors, fallback |-> FALSE,
     exc |-> exc]

\* The end of SearchOrchestrator.search, after the loop: the fallback, or the
\* aggregate error. The handler calls search without a fallback_reason.
OrchExhausted(rq) ==
    IF rq.fallback_enabled
    THEN [state |-> "returned",
          result |-> build_fallback_search_results(rq.num_results,
                         "All providers unavailable"),
          engine_used |-> "offline-fallback", attempts |-> rq.attempts,
          errors |-> rq.errors, fallback |-> TRUE, exc |-> NoExc]
    ELSE OrchRaise(rq, Raise("ExternalAPIError", "All search providers failed."))

\* ----------------------------------------------------------------- handler
\* '; '.join(f"{err['provider']}: {err['message']}" for err in engine_errors)
RECURSIVE JoinErrors(_)
JoinErrors(errors) ==
    IF errors = <<>> THEN ""
    ELSE LET n == Len(errors)
             last == errors[n].provider \o ": " \o errors[n].message
         IN  IF n = 1 THEN last
             ELSE JoinErrors(SubSeq(errors, 1, n - 1)) \o "; " \o last

\* The except clauses of the /search handler: the status and the error text.
ErrorResponse(exc) ==
    IF exc.cls = "QuotaExceededError" \/ exc.cls = "RateLimitError"
    THEN [NoResponse EXCEPT !.status = 429, !.error = exc.msg]
    ELSE IF exc.cls = "ExternalAPIError"
    THEN [NoResponse EXCEPT !.status = 502, !.error = exc.msg]
    ELSE [NoResponse EXCEPT !.status = 500, !.error = "Search failed"]

\* The handler from the return of orchestrator.search to its own return: the
\* request with the response filled in, the search counted on the user object.
Respond(rq, out, t) ==
    IF out.state = "raised"
    THEN [rq EXCEPT !.pc = "done", !.orch = out, !.resp = ErrorResponse(out.exc)]
    ELSE [rq EXCEPT
             !.pc = "done",
             !.orch = out,
             !.resp = [status |-> 200, error |-> "",
                       reason_kind |->
                           IF out.errors # <<>> THEN "joined"
                           ELSE IF out.result.has_reason THEN "builder"
                           ELSE "absent",
                       reason_text |->
                           IF out.errors # <<>> THEN "" ELSE out.result.fallback_reason,
                       reason_errors |-> out.errors],
             !.u = increment_search_count(rq.u, t)]

\* user.save() when the handler answers 200: the row as the handler's user
\* object has it.
Saved(rq, row) == IF rq.resp.status = 200 THEN rq.u ELSE row

\* ----------------------------------------------------------------- actions
\* The /search handler from its start to the first provider attempt: the
\* user is loaded, the quota is checked, the query is validated, the services
\* are built with the resolved keys and the orchestrator is entered.
Start(r, query, num_results, user_keys, cfg, fallback_enabled) ==
    /\ req[r].pc = "idle"
    /\ served < MaxRequests
    /\ served' = served + 1
    /\ LET quota == can_search(user, now)
           fresh == [IdleRequest EXCEPT !.u = quota.u]
       IN  req' = [req EXCEPT ![r] =
               IF ~quota.allowed
               THEN [fresh EXCEPT
                        !.pc = "done",
                        !.resp = ErrorResponse(Raise("QuotaExceededError",
                                     "Daily search limit exceeded"))]
               ELSE IF query = ""
               THEN [fresh EXCEPT
                        !.pc = "done",
                        !.resp = [NoResponse EXCEPT !.status = 400,
                                                    !.error = "Query is required"]]
               ELSE [fresh EXCEPT
                        !.pc = "cascade",
                        !.query = query,
                        !.num_results = Min(num_results, MAX_SEARCH_RESULTS),
                        !.fallback_enabled = fallback_enabled,
                        !.keys = get_services(user_keys, cfg)]]
    /\ UNCHANGED <<now, ticks, user, cache, ceiling, inst, instCalls, instLog,
                   guard, creds, applied>>

\* One turn of the orchestrator's loop that reaches a provider: the providers
\* without a key are skipped, the next one is recorded as attempted and its
\* search runs up to its network call. The Perplexity adapter first looks in
\* the cache and asks its rate limiter. redis_up says whether Redis answers
\* the cache lookup (CacheService.get gives None when it does not).
Attempt(r, redis_up) ==
    LET rq == req[r]
        i == NextAvailable(rq.keys, rq.idx)
    IN
    /\ rq.pc = "cascade"
    /\ i <= Len(Providers)
    /\ LET p == Providers[i]
           at == [rq EXCEPT !.idx = i,
                            !.attempts = Append(rq.attempts, p),
                            !.probed = rq.probed \cup Probed(rq.idx, i),
                            !.invoked = rq.invoked \cup {p}]
           key == PerplexityCacheKey(rq.query, rq.num_results, rq.search_type)
           pre == PerplexityBefore(rq.svc, rq.keys.perplexity, rq.query,
                                   now, ceiling)
           failed(exc) ==
               LET to == Answered(at, p, Raised(exc))
               IN  IF IsExternalAPIError(exc)
                   THEN [to EXCEPT !.idx = i + 1,
                                   !.errors = Append(rq.errors,
                                       [provider |-> p, message |-> exc.msg])]
                   ELSE Respond(to, OrchRaise(to, exc), now)
       IN  IF ~available(rq.keys, p)
           THEN /\ req' = [req EXCEPT ![r] = failed(NotConfigured(p))]
                /\ UNCHANGED user
           ELSE IF p = "perplexity" /\ CacheHit(cache, redis_up, key, now)
           THEN LET got == Returned(CacheGet(cache, key))
                    to == Answered(at, p, got)
                IN  /\ req' = [req EXCEPT ![r] =
                                   Respond(to, OrchReturn(to, got.result), now)]
                    /\ user' = Saved(req'[r], user)
           ELSE IF p = "perplexity" /\ ~pre.proceed
           THEN /\ req' = [req EXCEPT ![r] = [failed(pre.exc) EXCEPT !.svc = pre.svc]]
                /\ UNCHANGED user
           ELSE /\ req' = [req EXCEPT ![r] =
                    [at EXCEPT !.pc = "net",
                               !.svc = IF p = "perplexity" THEN pre.svc ELSE rq.svc]]
                /\ UNCHANGED user
    /\ UNCHANGED <<now, ticks, cache, ceiling, served, inst, instCalls, instLog,
                   guard, creds, applied>>

\* What the adapter of provider p makes of the upstream answer up.
AdapterAfter(p, rq, up) ==
    CASE p = "openai" ->
             OpenAISearch(rq.keys.openai, up, rq.num_results, rq.search_type)
      [] p = "perplexity" -> PerplexityAfter(up, rq.num_results, rq.search_type)
      [] OTHER -> SerpAPIAfter(up, rq.num_results, rq.search_type)

\* The network call of the provider being attempted ends with the answer up.
\* A result ends the cascade (the Perplexity adapter caches it first); an
\* ExternalAPIError is recorded and the loop goes on; any other exception
\* leaves the orchestrator. redis_up says whether Redis takes the cache entry.
NetReturn(r, up, redis_up) ==
    LET rq == req[r]
        p == Providers[rq.idx]
        got == AdapterAfter(p, rq, up)
        to == Answered(rq, p, got)
        key == PerplexityCacheKey(rq.query, rq.num_results, rq.search_type)
    IN
    /\ rq.pc = "net"
    /\ Possible(p, up)
    /\ IF got.ok
       THEN /\ req' = [req EXCEPT ![r] = Respond(to, OrchReturn(to, got.result), now)]
            /\ user' = Saved(req'[r], user)
            /\ cache' = IF p = "perplexity"
                        THEN CacheSet(cache, redis_up, key, got.result, now,
                                      PerplexityCacheTTL)
                        ELSE cache
       ELSE IF IsExternalAPIError(got.exc)
       THEN /\ req' = [req EXCEPT ![r] = [to EXCEPT
                    !.pc = "cascade",
                    !.idx = rq.idx + 1,
                    !.errors = Append(rq.errors,
                                      [provider |-> p, message |-> got.exc.msg])]]
            /\ UNCHANGED <<user, cache>>
       ELSE /\ req' = [req EXCEPT ![r] = Respond(to, OrchRaise(to, got.exc), now)]
            /\ UNCHANGED <<user, cache>>
    /\ UNCHANGED <<now, ticks, ceiling, served, inst, instCalls, instLog,
                   guard, creds, applied>>

\* The loop of the orchestrator runs out of providers: the remaining ones have
\* no key. The fallback is synthesized, or the aggregate error is raised, and
\* the handler answers.
Exhaust(r) ==
    LET rq == req[r]
        i == NextAvailable(rq.keys, rq.idx)
        at == [rq EXCEPT !.idx = i,
                         !.probed = rq.probed \cup Probed(rq.idx, i),
                         !.builder_calls =
                             IF rq.fallback_enabled THEN rq.builder_calls + 1
                             ELSE rq.builder_calls]
    IN
    /\ rq.pc = "cascade"
    /\ i > Len(Providers)
    /\ req' = [req EXCEPT ![r] = Respond(at, OrchExhausted(at), now)]
    /\ user' = Saved(req'[r], user)
    /\ UNCHANGED <<now, ticks, cache, ceiling, served, inst, instCalls, instLog,
                   guard, creds, applied>>

\* The handler has answered: the request and its objects are gone.
Finish(r) ==
    /\ req[r].pc = "done"
    /\ req' = [req EXCEPT ![r] = IdleRequest]
    /\ UNCHANGED <<now, ticks, user, cache, ceiling, served, inst, instCalls, instLog,
                   guard, creds, applied>>

\* Time passes; Redis drops the entries whose TTL has run out.
TickSteps == {PerplexityCacheTTL, SecondsPerDay}

Tick(d) ==
    /\ ticks < MaxTicks
    /\ ticks' = ticks + 1
    /\ now' = now + d
    /\ cache' = Expire(cache, now + d)
    /\ UNCHANGED <<user, ceiling, served, req, inst, instCalls, instLog,
                   guard, creds, applied>>

KeyChoices(own) == {"", own}

UserKeySets ==
    [openai : KeyChoices("user-openai"), perplexity : KeyChoices("user-perplexity"),
     serpapi : KeyChoices("user-serpapi")]

\* The configured keys of the /search requests of the model: none, as
\* settings.py gives them when the environment sets no key.
ConfigSets ==
    [OPENAI_API_KEY : {""},
     PERPLEXITY_API_KEY : {""},
     PERPLEXITY_SHARED_API_KEY : {""},
     SERPAPI_API_KEY : {""}]

\* One worker serves the requests one after another.
Next ==
    \/ \E q \in Queries, n \in NumResultsInputs, uk \in UserKeySets,
          cfg \in ConfigSets, fb \in BOOLEAN :
           Start(1, q, n, uk, cfg, fb)
    \/ \E redis_up \in BOOLEAN : Attempt(1, redis_up)
    \/ \E up \in RequestResponses, redis_up \in BOOLEAN : NetReturn(1, up, redis_up)
    \/ Exhaust(1)
    \/ Finish(1)
    \/ \E d \in TickSteps : Tick(d)

Spec == Init /\ [][Next]_vars

\* ====================================================== concurrent requests
\* The same handler run by two workers at once for one user: each request
\* loads its own user object and builds its own services (get_services), and
\* the steps of the two requests interleave at the network calls, within one
\* minute of one day. The rate limiter runs with a small ceiling, as for the
\* long-lived adapters.
ConcurrentUsers ==
    {u \in InitialUsers :
        u.tier = "free" /\ u.searches_today < FreeDailySearches
        /\ (u.last_search_date = None \/ DateOf(u.last_search_date) = DateOf(Clock0))}

ConcurrentKeySets == {uk \in UserKeySets : uk.openai = "" /\ uk.perplexity # ""}

ConcurrentResponses ==
    {up \in RequestResponses :
        up.status \in {429, 503} \/ (up.body = "json" /\ up.n > 0)}

InitConcurrent ==
    /\ now = Clock0
    /\ ticks = 0
    /\ user \in ConcurrentUsers
    /\ cache = << >>
    /\ ceiling \in 1..MaxCeiling
    /\ served = 0
    /\ req = [r \in Workers |-> IdleRequest]
    /\ inst = NewService
    /\ instCalls = 0
    /\ instLog = << >>
    /\ guard = NoGuard
    /\ creds = NoCreds
    /\ applied = << >>

NextConcurrent ==
    \/ \E r \in Workers, uk \in ConcurrentKeySets, cfg \in ConfigSets :
           Start(r, "climate policy", 3, uk, cfg, TRUE)
    \/ \E r \in Workers, redis_up \in BOOLEAN : Attempt(r, redis_up)
    \/ \E r \in Workers, up \in ConcurrentResponses, redis_up \in BOOLEAN :
           NetReturn(r, up, redis_up)
    \/ \E r \in Workers : Exhaust(r)
    \/ \E r \in Workers : Finish(r)

SpecConcurrent == InitConcurrent /\ [][NextConcurrent]_vars

\* ======================================================= long-lived adapters
\* The adapters as objects that serve one search after another in one
\* process, each search taken as a whole. search() leaves max_per_minute at
\* its default; here the same code runs with a small ceiling, so that a
\* window fills within MaxCalls searches.
InitAdapters ==
    /\ now = Clock0
    /\ ticks = 0
    /\ user \in {u \in InitialUsers : u.last_search_date = None /\ u.tier = "free"}
    /\ cache = << >>
    /\ ceiling \in 1..MaxCeiling
    /\ served = 0
    /\ req = [r \in Workers |-> IdleRequest]
    /\ inst = NewService
    /\ instCalls = 0
    /\ instLog = << >>
    /\ guard = NoGuard
    /\ creds = NoCreds
    /\ applied = << >>

\* One search as the log keeps it: the adapter, the arguments, the time,
\* whether the cache answered, what the rate limiter said ("none" when it was
\* not asked), whether the upstream was called, and the class of the
\* exception raised ("" for a result).
LogEntry(p, query, num_results, t, hit, limiter, net, cls) ==
    [provider |-> p, query |-> query, num_results |-> num_results, time |-> t,
     hit |-> hit, limiter |-> limiter, net |-> net, cls |-> cls]

\* PerplexitySearchService.search with its cache_result decorator.
PerplexityServiceSearch(query, num_results, up, redis_up) ==
    LET key == PerplexityCacheKey(query, num_results, "auto")
        pre == PerplexityBefore(inst, "long-lived-key", query, now, ceiling)
        got == PerplexityAfter(up, num_results, "auto")
        entry(hit, limiter, net, cls) ==
            LogEntry("perplexity", query, num_results, now, hit, limiter, net, cls)
    IN
    /\ instCalls < MaxCalls
    /\ instCalls' = instCalls + 1
    /\ IF CacheHit(cache, redis_up, key, now)
       THEN /\ instLog' = Append(instLog, entry(TRUE, "none", FALSE, ""))
            /\ UNCHANGED <<inst, cache>>
       ELSE IF ~pre.proceed
       THEN /\ instLog' = Append(instLog,
                 entry(FALSE,
                       IF IsRateLimitError(pre.exc) THEN "rejected" ELSE "none",
                       FALSE, pre.exc.cls))
            /\ inst' = pre.svc
            /\ UNCHANGED cache
       ELSE /\ instLog' = Append(instLog, entry(FALSE, "admitted", TRUE, got.exc.cls))
            /\ inst' = pre.svc
            /\ cache' = CacheStore(cache, redis_up, key, got, now)
    /\ UNCHANGED <<now, ticks, user, ceiling, served, req,
                   guard, creds, applied>>

\* SerpAPISearchService.search of a service that has a key.
SerpAPIServiceSearch(query, num_results, up) ==
    LET got == SerpAPIAfter(up, num_results, "auto")
    IN
    /\ instCalls < MaxCalls
    /\ Possible("serpapi", up)
    /\ instCalls' = instCalls + 1
    /\ instLog' = Append(instLog,
           LogEntry("serpapi", query, num_results, now, FALSE, "none", TRUE,
                    got.exc.cls))
    /\ UNCHANGED <<now, ticks, user, cache, ceiling, served, req, inst,
                   guard, creds, applied>>

\* OpenAISearchProvider.search of a provider that has a key.
OpenAIProviderSearch(query, num_results, up) ==
    LET got == OpenAISearch("long-lived-key", up, num_results, "auto")
    IN
    /\ instCalls < MaxCalls
    /\ instCalls' = instCalls + 1
    /\ instLog' = Append(instLog,
           LogEntry("openai", query, num_results, now, FALSE, "none", TRUE,
                    got.exc.cls))
    /\ UNCHANGED <<now, ticks, user, cache, ceiling, served, req, inst,
                   guard, creds, applied>>

AdapterTickSteps == {RateWindow - 1, PerplexityCacheTTL}

\* Time passes between two searches.
AdapterTick(d) ==
    /\ ticks < MaxAdapterTicks
    /\ ticks' = ticks + 1
    /\ now' = now + d
    /\ cache' = Expire(cache, now + d)
    /\ UNCHANGED <<user, ceiling, served, req, inst, instCalls, instLog,
                   guard, creds, applied>>

AdapterQueries == {"climate policy"}
AdapterCounts == {3, 10}

NextAdapters ==
    \/ \E q \in AdapterQueries, n \in AdapterCounts, up \in UpstreamResponses,
          redis_up \in BOOLEAN : PerplexityServiceSearch(q, n, up, redis_up)
    \/ \E q \in AdapterQueries, n \in AdapterCounts, up \in UpstreamResponses :
           SerpAPIServiceSearch(q, n, up)
    \/ \E q \in AdapterQueries, n \in AdapterCounts, up \in UpstreamResponses :
           OpenAIProviderSearch(q, n, up)
    \/ \E d \in AdapterTickSteps : AdapterTick(d)

SpecAdapters == InitAdapters /\ [][NextAdapters]_vars

\* ============================================================== quota guard
\* The two operations of the quota guard applied to one user object, in the
\* order the /search handler applies them: can_search, and after a yes,
\* increment_search_count; the clock may advance at any point.
\* The users: never searched, or searched yesterday or today, with a counter
\* within the limit of the tier.
GuardCounts(tier) ==
    IF DailyLimit(tier) = Unlimited THEN {0, 1, FreeDailySearches}
    ELSE {0, 1, DailyLimit(tier) - 1, DailyLimit(tier)}

GuardUsers ==
    {[tier |-> tier, searches_today |-> 0, last_search_date |-> None] :
         tier \in Tiers}
    \cup UNION {{[tier |-> tier, searches_today |-> c, last_search_date |-> d] :
                    c \in GuardCounts(tier),
                    d \in {Clock0 - SecondsPerDay, Clock0 - 60}} :
                tier \in Tiers}

InitGuard ==
    /\ now = Clock0
    /\ ticks = 0
    /\ user \in GuardUsers
    /\ cache = << >>
    /\ ceiling = DefaultMaxPerMinute
    /\ served = 0
    /\ req = [r \in Workers |-> IdleRequest]
    /\ inst = NewService
    /\ instCalls = 0
    /\ instLog = << >>
    /\ guard = NoGuard
    /\ creds = NoCreds
    /\ applied = << >>

\* user.can_search(config), as at the head of the /search handler.
GuardCanSearch ==
    LET got == can_search(user, now)
    IN
    /\ served < MaxGuardOps
    /\ served' = served + 1
    /\ user' = got.u
    /\ guard' = [op |-> "can_search", t |-> now, allowed |-> got.allowed,
                 before |-> user, after |-> got.u]
    /\ UNCHANGED <<now, ticks, cache, ceiling, req, inst, instCalls, instLog, creds, applied>>

\* user.increment_search_count(), which the handler reaches only after
\* can_search has said yes.
GuardRecordSearch ==
    LET after == increment_search_count(user, now)
    IN
    /\ served < MaxGuardOps
    /\ guard.op = "can_search"
    /\ guard.allowed
    /\ served' = served + 1
    /\ user' = after
    /\ guard' = [op |-> "increment_search_count", t |-> now, allowed |-> TRUE,
                 before |-> user, after |-> after]
    /\ UNCHANGED <<now, ticks, cache, ceiling, req, inst, instCalls, instLog, creds, applied>>

GuardTickSteps == {60, PerplexityCacheTTL, SecondsPerDay}

\* Time passes between two operations of the guard.
GuardTick(d) ==
    /\ ticks < MaxTicks
    /\ ticks' = ticks + 1
    /\ now' = now + d
    /\ UNCHANGED <<user, cache, ceiling, served, req, inst, instCalls, instLog,
                   guard, creds, applied>>

NextGuard ==
    \/ GuardCanSearch
    \/ GuardRecordSearch
    \/ \E d \in GuardTickSteps : GuardTick(d)

SpecGuard == InitGuard /\ [][NextGuard]_vars

\* ============================================================== credentials
\* get_services applied to the stored keys of a user and to the keys of the
\* configuration, each present or not.
CredentialConfigs ==
    [OPENAI_API_KEY : KeyChoices("env-openai"),
     PERPLEXITY_API_KEY : KeyChoices("env-perplexity"),
     PERPLEXITY_SHARED_API_KEY : KeyChoices("env-perplexity-shared"),
     SERPAPI_API_KEY : KeyChoices("env-serpapi")]

InitCredentials ==
    /\ now = Clock0
    /\ ticks = 0
    /\ user \in {u \in InitialUsers : u.last_search_date = None /\ u.tier = "free"}
    /\ cache = << >>
    /\ ceiling = DefaultMaxPerMinute
    /\ served = 0
    /\ req = [r \in Workers |-> IdleRequest]
    /\ inst = NewService
    /\ instCalls = 0
    /\ instLog = << >>
    /\ guard = NoGuard
    /\ creds = NoCreds
    /\ applied = << >>

\* get_services(user) under a configuration.
ResolveCredentials(user_keys, cfg) ==
    /\ creds' = [resolved |-> TRUE, user_keys |-> user_keys, cfg |-> cfg,
                 keys |-> get_services(user_keys, cfg)]
    /\ UNCHANGED <<now, ticks, user, cache, ceiling, served, req, inst, instCalls,
                   instLog, guard,
                   applied>>

NextCredentials ==
    \E uk \in UserKeySets, cfg \in CredentialConfigs : ResolveCredentials(uk, cfg)

SpecCredentials == InitCredentials /\ [][NextCredentials]_vars

\* ============================================================= rate limiter
\* One long-lived PerplexitySearchService that has a key and is searched for a
\* non-empty query again and again, each time missing the cache, taken up to
\* the network call: the checks of search() and _check_rate_limit, with the
\* clock advancing between the searches. The limiter runs with a small
\* ceiling, so that a window fills within MaxLimiterCalls searches.
MaxLimiterCalls == 3
MaxLimiterTicks == 2
MaxLimiterCeiling == 2

LimiterTickSteps == {2, RateWindow - 1, RateWindow}

InitLimiter ==
    /\ now = Clock0
    /\ ticks = 0
    /\ user \in {u \in InitialUsers : u.last_search_date = None /\ u.tier = "free"}
    /\ cache = << >>
    /\ ceiling \in 1..MaxLimiterCeiling
    /\ served = 0
    /\ req = [r \in Workers |-> IdleRequest]
    /\ inst = NewService
    /\ instCalls = 0
    /\ instLog = << >>
    /\ guard = NoGuard
    /\ creds = NoCreds
    /\ applied = << >>

\* search() up to the network call: the time, whether the limiter admitted the
\* call, and the limiter fields before and after.
LimiterCall ==
    LET pre == PerplexityBefore(inst, "long-lived-key", "climate policy", now, ceiling)
    IN
    /\ instCalls < MaxLimiterCalls
    /\ instCalls' = instCalls + 1
    /\ inst' = pre.svc
    /\ applied' = Append(applied,
           [fn |-> "_check_rate_limit", t |-> now, admitted |-> pre.proceed,
            cls |-> pre.exc.cls, before |-> inst, after |-> pre.svc])
    /\ UNCHANGED <<now, ticks, user, cache, ceiling, served, req, instLog,
                   guard, creds>>

\* Time passes between two searches.
LimiterTick(d) ==
    /\ ticks < MaxLimiterTicks
    /\ ticks' = ticks + 1
    /\ now' = now + d
    /\ UNCHANGED <<user, cache, ceiling, served, req, inst, instCalls, instLog,
                   guard, creds, applied>>

NextLimiter ==
    \/ LimiterCall
    \/ \E d \in LimiterTickSteps : LimiterTick(d)

SpecLimiter == InitLimiter /\ [][NextLimiter]_vars

\* ============================================================== termination
\* The /search handler serving requests one after another, with what the code
\* guarantees about progress: the handler and the orchestrator run on when
\* they can, and a network call that was given a timeout ends, in an answer
\* or in the Timeout of requests. A call that was given none is not bound to
\* end.
SEARCH_TIMEOUT == 30
SerpAPITimeout == 12

\* The timeout argument of the network call each adapter makes: requests.post
\* with timeout=self.timeout, requests.get with timeout=self.timeout, and
\* openai.ChatCompletion.create without one.
ExplicitTimeout(p) ==
    CASE p = "perplexity" -> SEARCH_TIMEOUT
      [] p = "serpapi" -> SerpAPITimeout
      [] OTHER -> None

\* The network call of worker r, if it was given a timeout, ends.
TimedNetReturn(r) ==
    /\ req[r].pc = "net"
    /\ ExplicitTimeout(Providers[req[r].idx]) # None
    /\ \E up \in RequestResponses, redis_up \in BOOLEAN : NetReturn(r, up, redis_up)

NextLive ==
    \/ \E uk \in UserKeySets, cfg \in ConfigSets, fb \in BOOLEAN :
           Start(1, "climate policy", 3, uk, cfg, fb)
    \/ \E redis_up \in BOOLEAN : Attempt(1, redis_up)
    \/ \E up \in RequestResponses, redis_up \in BOOLEAN : NetReturn(1, up, redis_up)
    \/ Exhaust(1)
    \/ Finish(1)

SpecLive ==
    /\ Init
    /\ [][NextLive]_vars
    /\ WF_vars(\E redis_up \in BOOLEAN : Attempt(1, redis_up))
    /\ WF_vars(TimedNetReturn(1))
    /\ WF_vars(Exhaust(1))

\* ============================================================== diagnostics
\* The search of each adapter, of a service that has a key, met with an
\* upstream failure: the message of the exception it raises, kept with the
\* provider and the upstream answer.
MaxFailedSearches == 2

\* The upstream failures of the claim's four causes.
FailureResponses ==
    {up \in UpstreamResponses : up.transport # "ok" \/ up.status >= 400}

InitDiagnostics ==
    /\ now = Clock0
    /\ ticks = 0
    /\ user \in {u \in InitialUsers : u.last_search_date = None /\ u.tier = "free"}
    /\ cache = << >>
    /\ ceiling = DefaultMaxPerMinute
    /\ served = 0
    /\ req = [r \in Workers |-> IdleRequest]
    /\ inst = NewService
    /\ instCalls = 0
    /\ instLog = << >>
    /\ guard = NoGuard
    /\ creds = NoCreds
    /\ applied = << >>

\* provider.search(...) raises on the upstream answer up.
FailedSearch(p, up) ==
    LET got == CASE p = "openai" -> OpenAISearch("long-lived-key", up, 3, "auto")
                 [] p = "perplexity" -> PerplexityAfter(up, 3, "auto")
                 [] OTHER -> SerpAPIAfter(up, 3, "auto")
    IN
    /\ Len(applied) < MaxFailedSearches
    /\ Possible(p, up)
    /\ ~got.ok
    /\ applied' = Append(applied,
           [fn |-> "search", provider |-> p, up |-> up, cls |-> got.exc.cls,
            msg |-> got.exc.msg])
    /\ UNCHANGED <<now, ticks, user, cache, ceiling, served, req, inst, instCalls,
                   instLog, guard, creds>>

NextDiagnostics ==
    \E p \in ProviderNames, up \in FailureResponses : FailedSearch(p, up)

SpecDiagnostics == InitDiagnostics /\ [][NextDiagnostics]_vars

\* ====================================================== fallback synthesizer
\* build_fallback_search_results called on its own, as the orchestrator calls
\* it through the handler's fallback_builder: with the query of the request,
\* any num_results the handler lets through, and the one reason the
\* orchestrator gives it; the clock may advance between two calls.
MaxFallbackCalls == 2
MaxFallbackTicks == 1

FallbackQueries == {"climate policy", "q&a"}
FallbackCounts == {-2, 0, 1, 3, 5, 7}
FallbackReasons == {"All providers unavailable"}
FallbackTickSteps == {1, SecondsPerDay}

\* query.title() and quote_plus(query): texts derived from the query alone.
Title(query) == <<"title", query>>
quote_plus(query) == <<"quote_plus", query>>

\* A published date counted from the index of the item, not its position.
FallbackPublishedByIndex(issued_at, position) ==
    issued_at - (position - 1) * SecondsPerDay

\* issued_at - timedelta(days=position)
FallbackPublished(issued_at, position) == issued_at - position * SecondsPerDay

\* The dict build_fallback_search_results returns at time issued_at, item by
\* item; the scores and the counts are those of the operator of that name.
FallbackPayload(query, num_results, reason, issued_at) ==
    LET base == build_fallback_search_results(num_results, reason)
    IN  [query |-> query,
         results |->
             [position \in DOMAIN base.results |->
                 [id |-> <<"fallback", position>>,
                  title |-> <<"Insight", position, Title(query)>>,
                  url |-> <<"https://researchhub.local/mock", quote_plus(query),
                            position>>,
                  published_date |-> FallbackPublished(issued_at, position),
                  score |-> base.results[position]]],
         total_results |-> base.total_results,
         search_type |-> base.search_type,
         timestamp |-> issued_at,
         fallback |-> base.fallback,
         fallback_reason |-> base.fallback_reason]

InitFallback ==
    /\ now = Clock0
    /\ ticks = 0
    /\ user \in {u \in InitialUsers : u.last_search_date = None /\ u.tier = "free"}
    /\ cache = << >>
    /\ ceiling = DefaultMaxPerMinute
    /\ served = 0
    /\ req = [r \in Workers |-> IdleRequest]
    /\ inst = NewService
    /\ instCalls = 0
    /\ instLog = << >>
    /\ guard = NoGuard
    /\ creds = NoCreds
    /\ applied = << >>

\* fallback_builder(query, num_results, reason)
BuildFallback(query, num_results, reason) ==
    /\ Len(applied) < MaxFallbackCalls
    /\ applied' = Append(applied,
           [fn |-> "build_fallback_search_results", query |-> query,
            num_results |-> num_results, reason |-> reason, t |-> now,
            out |-> FallbackPayload(query, num_results, reason, now)])
    /\ UNCHANGED <<now, ticks, user, cache, ceiling, served, req, inst, instCalls,
                   instLog, guard, creds>>

\* Time passes between two calls.
FallbackTick(d) ==
    /\ ticks < MaxFallbackTicks
    /\ ticks' = ticks + 1
    /\ now' = now + d
    /\ UNCHANGED <<user, cache, ceiling, served, req, inst, instCalls, instLog,
                   guard, creds, applied>>

NextFallback ==
    \/ \E q \in FallbackQueries, n \in FallbackCounts, reason \in FallbackReasons :
           BuildFallback(q, n, reason)
    \/ \E d \in FallbackTickSteps : FallbackTick(d)

SpecFallback == InitFallback /\ [][NextFallback]_vars

\* ============================================================== cache clear
\* PerplexitySearchService.clear_cache on a cache that already holds entries,
\* stored by earlier searches and not yet expired, and the searches that
\* follow it on the same service.
MaxClears == 1

\* The keys the cache may hold at the start: those of two searches of the
\* Perplexity adapter, and one written by the `cached` decorator of
\* cache_service.py, which has no "perplexity:" prefix.
StoredKeys ==
    {PerplexityCacheKey("climate policy", n, "auto") : n \in AdapterCounts}
    \cup {<<"cached", "summarize", 0, "", "">>}

ClearPatterns == {"perplexity:*", "*"}

\* redis KEYS pattern, for the patterns above: "perplexity:*" matches the keys
\* _generate_cache_key makes, "*" every key.
KeyMatches(key, pattern) ==
    pattern = "*" \/ (pattern = "perplexity:*" /\ key[1] = "perplexity")

\* CacheService.keys(pattern): [] when Redis is unreachable.
CacheKeys(c, up, pattern) ==
    IF up THEN {k \in DOMAIN c : KeyMatches(k, pattern)} ELSE {}

\* CacheService.delete(key)
CacheDelete(c, up, key) ==
    IF up THEN [k \in DOMAIN c \ {key} |-> c[k]] ELSE c

\* PerplexitySearchService.clear_cache(pattern): the cache afterwards.
\* self.cache.delete(*keys) passes every matching key as an argument of its
\* own to CacheService.delete(self, key), which takes one: with two keys or
\* more the call raises TypeError before anything is deleted, and the except
\* clause of clear_cache logs it.
clear_cache(c, up, pattern) ==
    LET keys == CacheKeys(c, up, pattern)
    IN  IF keys = {} THEN c
        ELSE IF Cardinality(keys) = 1
        THEN CacheDelete(c, up, CHOOSE k \in keys : TRUE)
        ELSE c

InitCacheClear ==
    /\ now = Clock0
    /\ ticks = 0
    /\ user \in {u \in InitialUsers : u.last_search_date = None /\ u.tier = "free"}
    /\ cache \in {[k \in S |->
                      [value |-> [NoResult EXCEPT !.search_type = "auto"],
                       expires |-> Clock0 + PerplexityCacheTTL]] :
                  S \in SUBSET StoredKeys}
    /\ ceiling = DefaultMaxPerMinute
    /\ served = 0
    /\ req = [r \in Workers |-> IdleRequest]
    /\ inst = NewService
    /\ instCalls = 0
    /\ instLog = << >>
    /\ guard = NoGuard
    /\ creds = NoCreds
    /\ applied = << >>

\* service.clear_cache(pattern): kept with the cache before and after, and
\* with the number of searches made before it.
ClearCache(pattern, redis_up) ==
    /\ Len(applied) < MaxClears
    /\ cache' = clear_cache(cache, redis_up, pattern)
    /\ applied' = Append(applied,
           [fn |-> "clear_cache", pattern |-> pattern, redis_up |-> redis_up,
            searches |-> Len(instLog), before |-> cache,
            after |-> clear_cache(cache, redis_up, pattern)])
    /\ UNCHANGED <<now, ticks, user, ceiling, served, req, inst, instCalls, instLog,
                   guard, creds>>

NextCacheClear ==
    \/ \E pattern \in ClearPatterns, redis_up \in BOOLEAN : ClearCache(pattern, redis_up)
    \/ \E q \in AdapterQueries, n \in AdapterCounts, up \in UpstreamResponses,
          redis_up \in BOOLEAN : PerplexityServiceSearch(q, n, up, redis_up)

SpecCacheClear == InitCacheClear /\ [][NextCacheClear]_vars

\* ================================================================== claims
Position(p) == CHOOSE j \in 1..Len(Providers) : Providers[j] = p

\* p is the first provider in the declared order that has a key.
IsFirstAvailable(rq, p) ==
    /\ available(rq.keys, p)
    /\ \A j \in 1..Len(Providers) :
           j < Position(p) => ~available(rq.keys, Providers[j])

\* The providers of S in the declared order.
InOrder(S) == SelectSeq(Providers, LAMBDA p : p \in S)

\* The providers named by a list of engine errors.
ErrorProviders(errors) == [i \in DOMAIN errors |-> errors[i].provider]

\* The search of p failed in this request with an ExternalAPIError: the key
\* was rejected, the provider could not be reached or timed out, or it
\* answered another status >= 400.
FailedExternal(rq, p) ==
    rq.answers[p].state = "raised" /\ IsExternalAPIError(rq.answers[p].exc)

\* The search of p failed rate-limited: the local limiter or an HTTP 429.
FailedRateLimited(rq, p) ==
    rq.answers[p].state = "raised" /\ IsRateLimitError(rq.answers[p].exc)

\* orchestrator.search was entered and has ended.
Searched(rq) == rq.pc = "done" /\ rq.orch.state # "none"

AggregateError == Raise("ExternalAPIError", "All search providers failed.")

\* C1: when the first available provider in the declared order returns a
\* result, the orchestrator has returned with that provider as engine_used,
\* attempted_engines holding that provider alone, no engine_errors and
\* is_fallback false, and no other provider's search was invoked.
C1_FirstSuccessStops ==
    \A r \in Workers : \A p \in ProviderNames :
        LET rq == req[r]
        IN  (IsFirstAvailable(rq, p) /\ rq.answers[p].state = "ok") =>
                /\ rq.pc = "done"
                /\ rq.orch.state = "returned"
                /\ rq.orch.engine_used = p
                /\ rq.orch.attempts = <<p>>
                /\ rq.orch.errors = <<>>
                /\ rq.orch.fallback = FALSE
                /\ rq.invoked = {p}

\* C1 witness: Perplexity is the first available provider and succeeds while
\* SerpAPI, later in the order, has a key too.
C1_Witness ==
    \E r \in Workers :
        /\ req[r].keys.openai = ""
        /\ req[r].answers["perplexity"].state = "ok"
        /\ available(req[r].keys, "serpapi")
        /\ req[r].orch.engine_used = "perplexity"

\* C2: with openai without a key, perplexity failing with an ExternalAPIError
\* and serpapi succeeding, the orchestrator returns attempted_engines
\* <<perplexity, serpapi>>, exactly one engine error (perplexity with its
\* message), engine_used serpapi and is_fallback false.
C2_SkipFailSucceed ==
    \A r \in Workers :
        LET rq == req[r]
        IN  (/\ ~available(rq.keys, "openai")
             /\ FailedExternal(rq, "perplexity")
             /\ rq.answers["serpapi"].state = "ok") =>
                /\ rq.orch.state = "returned"
                /\ rq.orch.attempts = <<"perplexity", "serpapi">>
                /\ rq.orch.errors =
                       <<[provider |-> "perplexity",
                          message |-> rq.answers["perplexity"].exc.msg]>>
                /\ rq.orch.engine_used = "serpapi"
                /\ rq.orch.fallback = FALSE

\* C2 witness: the key of Perplexity was rejected and SerpAPI answered.
C2_Witness ==
    \E r \in Workers :
        /\ ~available(req[r].keys, "openai")
        /\ req[r].answers["perplexity"].exc.msg =
               "Perplexity rejected the API key. Double-check the value in Settings and try again."
        /\ req[r].answers["serpapi"].state = "ok"
        /\ req[r].pc = "done"

\* C3 (as claimed): a rate-limited failure of a provider is appended to
\* engine_errors as {provider, message} and does not leave the orchestrator
\* other than as the aggregate failure.
C3_RateLimitCascades ==
    \A r \in Workers : \A p \in ProviderNames :
        LET rq == req[r]
        IN  FailedRateLimited(rq, p) =>
                /\ \E i \in DOMAIN rq.errors :
                       rq.errors[i] = [provider |-> p,
                                       message |-> rq.answers[p].exc.msg]
                /\ rq.orch.state = "raised" => rq.orch.exc = AggregateError

\* C4 (as claimed): with fallback enabled, whatever the availability of the
\* providers and whichever classified failures they end in, the orchestrator
\* returns an outcome and the handler answers 200.
C4_NoProviderErrorEscapes ==
    \A r \in Workers :
        LET rq == req[r]
        IN  (/\ Searched(rq)
             /\ rq.fallback_enabled
             /\ \A p \in ProviderNames :
                    rq.answers[p].state = "raised" =>
                        FailedExternal(rq, p) \/ FailedRateLimited(rq, p)) =>
                /\ rq.orch.state = "returned"
                /\ rq.resp.status = 200

\* Scores that do not increase by position.
NonIncreasing(scores) ==
    \A i \in DOMAIN scores : \A j \in DOMAIN scores :
        i < j => scores[i] >= scores[j]

\* C5: with fallback enabled and every provider without a key or failed with
\* an ExternalAPIError, the orchestrator returns is_fallback true, engine_used
\* "offline-fallback" and between 1 and 5 results with non-increasing scores.
C5_FallbackOutcome ==
    \A r \in Workers :
        LET rq == req[r]
        IN  (/\ Searched(rq)
             /\ rq.fallback_enabled
             /\ \A p \in ProviderNames :
                    ~available(rq.keys, p) \/ FailedExternal(rq, p)) =>
                /\ rq.orch.state = "returned"
                /\ rq.orch.fallback = TRUE
                /\ rq.orch.engine_used = "offline-fallback"
                /\ Len(rq.orch.result.results) >= 1
                /\ Len(rq.orch.result.results) <= 5
                /\ NonIncreasing(rq.orch.result.results)

\* C5 witness: a fallback after a failed attempt, for a request of no results.
C5_Witness ==
    \E r \in Workers :
        /\ Searched(req[r])
        /\ req[r].orch.fallback
        /\ req[r].num_results = 0
        /\ req[r].errors # <<>>
        /\ \E p \in ProviderNames : ~available(req[r].keys, p)

\* C6 (as claimed): the aggregate error is raised exactly when fallback is
\* disabled and every provider had no key or failed with a classified failure.
C6_AggregateIff ==
    \A r \in Workers :
        LET rq == req[r]
        IN  Searched(rq) =>
                ((rq.orch.state = "raised" /\ rq.orch.exc = AggregateError)
                 <=>
                 (/\ ~rq.fallback_enabled
                  /\ \A p \in ProviderNames :
                         \/ ~available(rq.keys, p)
                         \/ FailedExternal(rq, p)
                         \/ FailedRateLimited(rq, p)))

\* C7: in every outcome of the orchestrator, attempted_engines is the invoked
\* providers in the declared order, engine_errors names the invoked providers
\* that failed, in that order, a provider without a key is neither invoked nor
\* listed, a provider that failed is in both lists, and attempted_engines is
\* the error providers, followed by engine_used unless it is the fallback.
C7_Bookkeeping ==
    \A r \in Workers :
        LET rq == req[r]
            out == rq.orch
            failed == {p \in rq.invoked : rq.answers[p].state = "raised"}
        IN  out.state = "returned" =>
                /\ out.attempts = InOrder(rq.invoked)
                /\ ErrorProviders(out.errors) = InOrder(failed)
                /\ \A p \in ProviderNames :
                       ~available(rq.keys, p) =>
                           /\ p \notin rq.invoked
                           /\ rq.answers[p].state = "none"
                           /\ \A i \in DOMAIN out.attempts : out.attempts[i] # p
                           /\ \A i \in DOMAIN out.errors : out.errors[i].provider # p
                /\ \A p \in failed :
                       /\ \E i \in DOMAIN out.attempts : out.attempts[i] = p
                       /\ \E i \in DOMAIN out.errors :
                              out.errors[i] = [provider |-> p,
                                               message |-> rq.answers[p].exc.msg]
                /\ out.attempts =
                       IF out.fallback THEN ErrorProviders(out.errors)
                       ELSE Append(ErrorProviders(out.errors), out.engine_used)

\* C7 witness: an outcome after one provider was skipped and one failed.
C7_Witness ==
    \E r \in Workers :
        /\ req[r].orch.state = "returned"
        /\ ~available(req[r].keys, "openai")
        /\ Len(req[r].orch.errors) = 1
        /\ Len(req[r].orch.attempts) = 2

\* The quota of the user is used up at time t: a limited tier, a search
\* recorded on the current UTC date, and the counter at the limit.
QuotaSpent(u, t) ==
    /\ DailyLimit(u.tier) # Unlimited
    /\ u.last_search_date # None
    /\ DateOf(u.last_search_date) >= DateOf(t)
    /\ u.searches_today >= DailyLimit(u.tier)

QuotaRejection ==
    [NoResponse EXCEPT !.status = 429, !.error = "Daily search limit exceeded"]

\* C8: a request that arrives when the quota guard says no ends at once with
\* the quota-exceeded rejection: no provider is probed or searched, the
\* fallback is not synthesized and the user's row keeps its searches_today.
C8_QuotaRejectsFirst ==
    [][\A r \in Workers :
          (/\ req[r].pc = "idle"
           /\ req'[r].pc # "idle"
           /\ (QuotaSpent(user, now) \/ ~can_search(user, now).allowed)) =>
              /\ req'[r].pc = "done"
              /\ req'[r].resp = QuotaRejection
              /\ req'[r].orch.state = "none"
              /\ req'[r].probed = {}
              /\ req'[r].invoked = {}
              /\ req'[r].builder_calls = 0
              /\ user' = user]_vars

\* C8 witness: a request was rejected for the quota.
C8_Witness ==
    \E r \in Workers :
        /\ req[r].pc = "done"
        /\ req[r].resp = QuotaRejection
        /\ QuotaSpent(user, now)

\* The searches of the log, earlier than search j, that the rate limiter
\* admitted less than RateWindow seconds before search j.
AdmittedInWindow(j) ==
    {i \in 1..(j - 1) :
        /\ instLog[i].limiter = "admitted"
        /\ instLog[j].time - instLog[i].time < RateWindow}

\* C9: for a rate limiter with ceiling N, a search that reaches the limiter
\* when N searches were already admitted within the same 60-second window is
\* rejected: the adapter raises RateLimitError and makes no network call.
C9_CeilingRejects ==
    \A j \in 1..Len(instLog) :
        (/\ instLog[j].limiter # "none"
         /\ Cardinality(AdmittedInWindow(j)) >= ceiling)
        => /\ instLog[j].limiter = "rejected"
           /\ instLog[j].cls = "RateLimitError"
           /\ ~instLog[j].net

C9_Witness ==
    \E j \in 1..Len(instLog) :
        /\ instLog[j].limiter = "rejected"
        /\ Cardinality(AdmittedInWindow(j)) = ceiling
        /\ instLog[j].cls = "RateLimitError"
        /\ \E i \in AdmittedInWindow(j) : instLog[i].net

\* Two searches of the log with the same provider, query, count and type
\* (the type is "auto" throughout).
Identical(i, j) ==
    /\ instLog[i].provider = instLog[j].provider
    /\ instLog[i].query = instLog[j].query
    /\ instLog[i].num_results = instLog[j].num_results

\* C10: for each of the three adapters, two identical searches less than the
\* cache TTL apart make at most one upstream call between them, and an
\* identical search made when the TTL has passed since every earlier one makes
\* a new upstream call. The first part is stated for an earlier search that
\* returned a result, the case in which there is a result to keep.
C10_OneUpstreamCallWithinTTL ==
    /\ \A i, j \in 1..Len(instLog) :
           (/\ i < j
            /\ Identical(i, j)
            /\ instLog[i].cls = ""
            /\ instLog[j].time - instLog[i].time < PerplexityCacheTTL)
           => ~(instLog[i].net /\ instLog[j].net)
    /\ \A j \in 1..Len(instLog) :
           (/\ \E i \in 1..(j - 1) : Identical(i, j)
            /\ \A i \in 1..(j - 1) :
                   Identical(i, j)
                   => instLog[j].time - instLog[i].time >= PerplexityCacheTTL)
           => instLog[j].net

\* The user has searched before, and not on the UTC date of time t.
DateRolledOver(u, t) ==
    u.last_search_date # None /\ DateOf(u.last_search_date) < DateOf(t)

\* C11: can_search says yes on the first check after the UTC date has rolled
\* over, whatever the counter of the previous day was, for every tier with a
\* positive limit, and says yes for a tier whose limit is -1.
C11_RolloverAndUnlimited ==
    guard.op = "can_search" =>
        /\ (DailyLimit(guard.before.tier) > 0
            /\ DateRolledOver(guard.before, guard.t)) => guard.allowed
        /\ DailyLimit(guard.before.tier) = Unlimited => guard.allowed

\* C11 witness: a user whose counter stood at the limit yesterday is admitted.
C11_Witness ==
    /\ guard.op = "can_search"
    /\ guard.before.searches_today = DailyLimit(guard.before.tier)
    /\ DateRolledOver(guard.before, guard.t)
    /\ guard.allowed

\* C12: increment_search_count leaves searches_today at 1 when the user had
\* not searched on the current UTC date (or ever), at its old value plus 1
\* otherwise, and sets last_search_date to the current time; and an operation
\* of the guard lowers searches_today only by the reset of a new day.
C12_RecordSearch ==
    /\ guard.op = "increment_search_count" =>
           /\ guard.after.searches_today =
                  IF guard.before.last_search_date = None
                     \/ DateRolledOver(guard.before, guard.t)
                  THEN 1
                  ELSE guard.before.searches_today + 1
           /\ guard.after.last_search_date = guard.t
           /\ guard.after.tier = guard.before.tier
    /\ (guard.op # "none"
        /\ guard.after.searches_today < guard.before.searches_today) =>
           /\ DateRolledOver(guard.before, guard.t)
           /\ guard.after.searches_today =
                  IF guard.op = "can_search" THEN 0 ELSE 1

\* C12 witness: a search is recorded on the day after a day that ended with
\* the counter above 1, and the counter is 1.
C12_Witness ==
    /\ guard.op = "increment_search_count"
    /\ DateRolledOver(guard.before, guard.t)
    /\ guard.before.searches_today > 1
    /\ guard.after.searches_today = 1

\* C13: for a user of a tier with a limit L other than -1, searches_today
\* stays between 0 and L whatever searches were checked and recorded and
\* whenever the date rolled over; and an operation of the guard applied when
\* last_search_date precedes the current UTC date counts from 0.
C13_CounterWithinLimit ==
    /\ DailyLimit(user.tier) # Unlimited =>
           /\ user.searches_today >= 0
           /\ user.searches_today <= DailyLimit(user.tier)
    /\ (/\ guard.op # "none"
        /\ DailyLimit(guard.before.tier) # Unlimited
        /\ DateRolledOver(guard.before, guard.t)) =>
           /\ guard.allowed
           /\ guard.after.searches_today =
                  IF guard.op = "can_search" THEN 0 ELSE 1

\* C13 witness: a recorded search has brought the counter to the limit.
C13_Witness ==
    /\ guard.op = "increment_search_count"
    /\ DailyLimit(user.tier) # Unlimited
    /\ guard.before.searches_today = DailyLimit(user.tier) - 1
    /\ user.searches_today = DailyLimit(user.tier)

\* The step in which worker r answers its request with 200.
Answers200(r) ==
    /\ req[r].pc # "done"
    /\ req'[r].pc = "done"
    /\ req'[r].resp.status = 200

\* C14 (as claimed): when searches of one user are handled concurrently, each
\* search that is answered raises the stored searches_today by one (1 on a new
\* day), and is answered only while the stored counter of the day is below the
\* limit of the tier.
C14_NoStaleQuota ==
    [][\A r \in Workers :
          Answers200(r) =>
              /\ user'.searches_today =
                     IF user.last_search_date = None \/ DateRolledOver(user, now)
                     THEN 1
                     ELSE user.searches_today + 1
              /\ DailyLimit(user.tier) # Unlimited =>
                     \/ user.last_search_date = None
                     \/ DateRolledOver(user, now)
                     \/ user.searches_today < DailyLimit(user.tier)]_vars

\* The workers whose request is waiting for the answer to an upstream call
\* that the Perplexity rate limiter admitted.
AdmittedInFlight ==
    {r \in Workers : req[r].pc = "net" /\ Providers[req[r].idx] = "perplexity"}

\* Those of them admitted less than RateWindow seconds from the call of r.
SameWindow(r) ==
    {q \in AdmittedInFlight :
        LET d == req[q].svc.last_request_time - req[r].svc.last_request_time
        IN  d < RateWindow /\ 0 - d < RateWindow}

\* C15 (as claimed): the upstream calls admitted to Perplexity within one
\* 60-second window, over all the requests of the process, never outnumber
\* the ceiling of the rate limiter, and the counter that admitted a call has
\* counted every call admitted in that window.
C15_SharedRateLimit ==
    \A r \in AdmittedInFlight :
        /\ Cardinality(SameWindow(r)) <= ceiling
        /\ \E q \in SameWindow(r) :
               req[q].svc.request_count >= Cardinality(SameWindow(r))

\* C16: every outcome the orchestrator returns for a non-empty query and a
\* num_results between 1 and MAX_SEARCH_RESULTS, from any of the three
\* adapters, the cache or the fallback synthesizer, has total_results equal to
\* the number of its results, and at most num_results results.
C16_CountsConsistent ==
    \A r \in Workers :
        LET rq == req[r]
            out == rq.orch
        IN  (/\ out.state = "returned"
             /\ rq.query # ""
             /\ rq.num_results >= 1
             /\ rq.num_results <= MAX_SEARCH_RESULTS) =>
                /\ out.result.total_results = Len(out.result.results)
                /\ Len(out.result.results) <= rq.num_results

\* C16 witness: Perplexity's result comes from the cache (the rate limiter of
\* the request was never asked) and holds as many results as were requested.
C16_Witness ==
    \E r \in Workers :
        /\ req[r].orch.state = "returned"
        /\ req[r].orch.engine_used = "perplexity"
        /\ req[r].svc.request_count = 0
        /\ req[r].num_results >= 1
        /\ Len(req[r].orch.result.results) = req[r].num_results

\* The search of p ended in this request in an error outside the classified
\* failures of the external APIs: neither ExternalAPIError nor RateLimitError.
FailedFatally(rq, p) ==
    /\ rq.answers[p].state = "raised"
    /\ rq.answers[p].exc.cls \notin {"ExternalAPIError", "RateLimitError"}

\* No provider declared after p was tried in this request.
NoneTriedAfter(rq, p) ==
    \A q \in ProviderNames :
        Position(q) > Position(p) =>
            /\ q \notin rq.invoked
            /\ rq.answers[q].state = "none"

\* C17: when a provider's search ends in an error that is not a classified
\* failure, the orchestrator ends with that very error: it is not recorded in
\* engine_errors, no later provider is tried, the fallback synthesizer is not
\* invoked, and the handler answers 500.
C17_FatalErrorPropagates ==
    \A r \in Workers : \A p \in ProviderNames :
        LET rq == req[r]
        IN  FailedFatally(rq, p) =>
                /\ rq.pc = "done"
                /\ rq.orch.state = "raised"
                /\ rq.orch.exc = rq.answers[p].exc
                /\ \A i \in DOMAIN rq.orch.errors : rq.orch.errors[i].provider # p
                /\ NoneTriedAfter(rq, p)
                /\ rq.builder_calls = 0
                /\ rq.resp.status = 500

\* C17 witness: Perplexity's answer was not the JSON object the adapter reads,
\* while SerpAPI had a key and the fallback was enabled.
C17_Witness ==
    \E r \in Workers :
        /\ FailedFatally(req[r], "perplexity")
        /\ available(req[r].keys, "serpapi")
        /\ req[r].fallback_enabled
        /\ req[r].resp.status = 500

\* The search of p failed in this request on the provider's configuration:
\* requests refused the configured URL.
FailedOnConfiguration(rq, p) ==
    rq.answers[p].state = "raised" /\ rq.answers[p].exc.cause = "MissingSchema"

\* C18 (as claimed): a configuration error of a provider ends the request: it
\* is not recorded in engine_errors, no later provider is tried, no fallback
\* outcome is produced, and the error leaves the orchestrator.
C18_ConfigurationErrorFatal ==
    \A r \in Workers : \A p \in ProviderNames :
        LET rq == req[r]
        IN  FailedOnConfiguration(rq, p) =>
                /\ rq.pc = "done"
                /\ rq.orch.state = "raised"
                /\ rq.orch.exc = rq.answers[p].exc
                /\ \A i \in DOMAIN rq.errors : rq.errors[i].provider # p
                /\ NoneTriedAfter(rq, p)
                /\ rq.builder_calls = 0

\* C19 (as claimed): when the orchestrator ends in the fallback after provider
\* failures, the reason in the synthesizer's output is the recorded error
\* messages joined in attempt order; when no provider was attempted it says
\* that the providers were unavailable; so the two reasons differ.
C19_FallbackReason ==
    \A r \in Workers :
        LET out == req[r].orch
        IN  (out.state = "returned" /\ out.fallback) =>
                /\ out.result.has_reason
                /\ out.errors # <<>> =>
                       out.result.fallback_reason = JoinErrors(out.errors)
                /\ out.attempts = <<>> =>
                       out.result.fallback_reason = "All providers unavailable"

\* The keys the configuration holds for provider p.
ConfiguredKeys(cfg, p) ==
    (CASE p = "openai" -> {cfg.OPENAI_API_KEY}
       [] p = "perplexity" -> {cfg.PERPLEXITY_API_KEY, cfg.PERPLEXITY_SHARED_API_KEY}
       [] OTHER -> {cfg.SERPAPI_API_KEY}) \ {""}

\* C20 (as claimed): for each provider the key used is the user's own stored
\* key whenever there is one, a configured key only when the user has none,
\* and the provider is unavailable exactly when there is neither.
C20_OwnKeyFirst ==
    creds.resolved =>
        \A p \in ProviderNames :
            /\ creds.user_keys[p] # "" => creds.keys[p] = creds.user_keys[p]
            /\ (creds.user_keys[p] = "" /\ available(creds.keys, p)) =>
                   creds.keys[p] \in ConfiguredKeys(creds.cfg, p)
            /\ ~available(creds.keys, p) <=>
                   (creds.user_keys[p] = "" /\ ConfiguredKeys(creds.cfg, p) = {})


\* The start of the window that call j of the limiter falls in, if the window
\* were anchored at its first call: the first call starts a window, and so
\* does each call made when the window of the call before it has run out
\* (RateWindow seconds or more after its start, as the code compares).
RECURSIVE FixedWindowStart(_)
FixedWindowStart(j) ==
    IF j = 1 THEN applied[1].t
    ELSE IF applied[j].t - FixedWindowStart(j - 1) >= RateWindow
         THEN applied[j].t
         ELSE FixedWindowStart(j - 1)

\* C21 (as claimed): the window of the rate limiter is anchored at the first
\* call admitted in it: the first call made more than 60 seconds after that
\* call is admitted and leaves request_count at 1, however recently the other
\* calls of the old window were made.
C21_WindowAnchoredAtFirstCall ==
    \A j \in 2..Len(applied) :
        applied[j].t - FixedWindowStart(j - 1) > RateWindow =>
            /\ applied[j].admitted
            /\ applied[j].after.request_count = 1

\* C29: a call that the rate limiter rejects leaves request_count and the
\* window timestamp as they were; a call made 60 seconds or more after the
\* last admitted call is admitted, whatever calls were rejected in between;
\* and request_count never exceeds the ceiling.
C29_RejectionsDoNotProlong ==
    /\ \A j \in 1..Len(applied) :
           /\ ~applied[j].admitted =>
                  /\ applied[j].after = applied[j].before
                  /\ applied[j].cls = "RateLimitError"
           /\ (\A i \in 1..(j - 1) :
                   applied[i].admitted => applied[j].t - applied[i].t >= RateWindow)
              => applied[j].admitted
    /\ inst.request_count <= ceiling

\* C29 witness: a call is admitted 60 seconds or more after the last admitted
\* call, with a rejected call in between less than 60 seconds before it.
C29_Witness ==
    \E i, k, j \in 1..Len(applied) :
        /\ i < k /\ k < j
        /\ applied[i].admitted
        /\ ~applied[k].admitted
        /\ applied[j].admitted
        /\ applied[j].t - applied[i].t >= RateWindow
        /\ applied[j].t - applied[k].t < RateWindow
        /\ applied[j].after.request_count = 1
        /\ applied[k].after.request_count = ceiling


\* C22 (as claimed): can_search is a pure check: it leaves searches_today and
\* last_search_date as they were in every case, also when last_search_date
\* precedes the current UTC date; only increment_search_count writes the reset.
C22_CanSearchPure ==
    guard.op = "can_search" =>
        /\ guard.after.searches_today = guard.before.searches_today
        /\ guard.after.last_search_date = guard.before.last_search_date


\* The search that a step of the long-lived adapters has added to the log.
LoggedSearch == instLog'[Len(instLog')]

\* C23: a search of the Perplexity adapter that the cache answers makes no
\* network call and leaves request_count and the window timestamp of the rate
\* limiter, and the cache, as they were; the rate limiter is asked only on a
\* cache miss, and a network call is made only once it has admitted the call;
\* and the cache changes only by a search whose network call gave a result: a
\* search that raised stores nothing.
C23_CacheHitFrame ==
    [][(instLog' # instLog /\ LoggedSearch.provider = "perplexity") =>
          /\ LoggedSearch.hit =>
                 /\ ~LoggedSearch.net
                 /\ LoggedSearch.limiter = "none"
                 /\ LoggedSearch.cls = ""
                 /\ inst' = inst
                 /\ cache' = cache
          /\ LoggedSearch.limiter # "none" => ~LoggedSearch.hit
          /\ LoggedSearch.net <=> LoggedSearch.limiter = "admitted"
          /\ LoggedSearch.limiter = "rejected" => inst' = inst
          /\ cache' # cache => (LoggedSearch.net /\ LoggedSearch.cls = "")
          /\ LoggedSearch.cls # "" => cache' = cache]_vars

\* C23 witness: a search was answered by the cache some time after the search
\* that stored the entry, and the rate limiter still shows that one call.
C23_Witness ==
    \E i, j \in 1..Len(instLog) :
        /\ i < j
        /\ instLog[i].provider = "perplexity"
        /\ instLog[i].net
        /\ instLog[i].cls = ""
        /\ instLog[j].hit
        /\ ~instLog[j].net
        /\ instLog[j].time > instLog[i].time
        /\ inst = [request_count |-> 1, last_request_time |-> instLog[i].time]


\* No provider is named twice in a list of attempts.
AttemptedOnce(attempts) ==
    \A i, j \in DOMAIN attempts : attempts[i] = attempts[j] => i = j

\* C24 (as claimed): every network call of a provider adapter carries an
\* explicit timeout, no provider is attempted twice in a request, and a request
\* that has entered the orchestrator eventually gets its outcome or its error.
C24_EveryAttemptEnds ==
    /\ [](\A r \in Workers :
              req[r].pc = "net" => ExplicitTimeout(Providers[req[r].idx]) # None)
    /\ [](\A r \in Workers : AttemptedOnce(req[r].attempts))
    /\ \A r \in Workers :
           (req[r].pc \in {"cascade", "net"}) ~> (req[r].pc = "done")


\* The cause of an upstream failure, as an operator tells them apart.
FailureCause(up) ==
    CASE up.transport # "ok" -> "connectivity"
      [] up.status = 401 -> "credential rejected"
      [] up.status = 429 -> "rate limited"
      [] OTHER -> "other status"

\* C25 (as claimed): for each of the three adapters, two failed attempts of
\* the same provider whose causes differ (credential rejected, rate limited,
\* timeout or connection failure, another status >= 400) are recorded with
\* different message texts.
C25_MessageTellsCause ==
    \A i, j \in 1..Len(applied) :
        (/\ applied[i].provider = applied[j].provider
         /\ FailureCause(applied[i].up) # FailureCause(applied[j].up))
        => applied[i].msg # applied[j].msg


\* The scores the claim lists, in hundredths.
ClaimedScores == <<100, 88, 76, 64, 52>>

\* A payload of the synthesizer with its timestamps blanked.
WithoutTimestamps(out) ==
    [out EXCEPT !.timestamp = None,
                !.results = [p \in DOMAIN out.results |->
                                [out.results[p] EXCEPT !.published_date = None]]]

\* C26: for any query and any integer num_results the fallback synthesizer
\* returns min(max(num_results, 1), 5) results; the score at 0-based position
\* i is max(0.3, 1.0 - 0.12 * i), that is 1.00, 0.88, 0.76, 0.64, 0.52; the
\* published date at 1-based position p is p days before the call time; and
\* two calls with the same query and num_results give outputs that differ
\* only in their timestamps.
C26_FallbackDeterministic ==
    /\ \A c \in 1..Len(applied) :
           LET call == applied[c]
               results == call.out.results
           IN  /\ Len(results) = Min(Max(call.num_results, 1), 5)
               /\ call.out.total_results = Len(results)
               /\ \A p \in DOMAIN results :
                      /\ results[p].score = Max(30, 100 - 12 * (p - 1))
                      /\ results[p].score = ClaimedScores[p]
                      /\ results[p].published_date = call.t - p * SecondsPerDay
    /\ \A c, d \in 1..Len(applied) :
           (/\ applied[c].query = applied[d].query
            /\ applied[c].num_results = applied[d].num_results)
           => WithoutTimestamps(applied[c].out) = WithoutTimestamps(applied[d].out)

\* C26 witness: two calls a day apart with the same query and a num_results
\* above five: five results each, alike but for their timestamps.
C26_Witness ==
    \E c, d \in 1..Len(applied) :
        /\ applied[c].query = applied[d].query
        /\ applied[c].num_results = applied[d].num_results
        /\ applied[c].num_results > 5
        /\ applied[d].t = applied[c].t + SecondsPerDay
        /\ Len(applied[d].out.results) = 5
        /\ applied[c].out # applied[d].out
        /\ applied[d].out.results[5].published_date =
               applied[c].out.results[4].published_date


\* The step in which worker r answers its request.
Answers(r) == req[r].pc # "done" /\ req'[r].pc = "done"

\* C27 (as claimed): a /search request that returns an outcome, from a real
\* provider or from the fallback, is answered 200 and records one search: the stored
\* searches_today rises by one, counted from 0 when the last search was not
\* on the current UTC date, and last_search_date becomes the current time. A
\* request that ends in a rejection or an error (quota exceeded, empty query,
\* every provider failed with the fallback disabled, an error that leaves the
\* orchestrator) is answered with another status and leaves the stored user
\* as it was.
C27_OneSearchPerOutcome ==
    [][\A r \in Workers :
          Answers(r) =>
              /\ req'[r].orch.state = "returned" <=> req'[r].resp.status = 200
              /\ req'[r].resp.status = 200 =>
                     /\ user'.searches_today =
                            IF user.last_search_date = None \/ DateRolledOver(user, now)
                            THEN 1
                            ELSE user.searches_today + 1
                     /\ user'.last_search_date = now
                     /\ user'.tier = user.tier
              /\ req'[r].resp.status # 200 =>
                     /\ user' = user
                     /\ req'[r].resp.status \in {400, 429, 500, 502}]_vars

\* C28 (as claimed): the response of /search carries a fallback_reason only
\* when the outcome is a fallback: an outcome served by a real provider after
\* earlier providers failed carries those failures in engine_errors and no
\* fallback_reason.
C28_ReasonOnlyOnFallback ==
    \A r \in Workers :
        LET rq == req[r]
        IN  (rq.pc = "done" /\ rq.resp.status = 200) =>
                /\ rq.resp.reason_kind # "absent" => rq.orch.fallback
                /\ (~rq.orch.fallback /\ rq.orch.errors # <<>>) =>
                       /\ rq.resp.reason_errors = rq.orch.errors
                       /\ rq.resp.reason_kind = "absent"


\* The cache key of search j of the log.
LoggedKey(j) == PerplexityCacheKey(instLog[j].query, instLog[j].num_results, "auto")

\* C30 (as claimed): clear_cache removes every cache entry whose key matches
\* the pattern, whether none, one, or two and more match, so that the next
\* search for a request that was cached before goes upstream.
C30_ClearCacheRemovesAll ==
    \A c \in 1..Len(applied) :
        LET call == applied[c]
            next == call.searches + 1
        IN  call.redis_up =>
                /\ \A k \in DOMAIN call.after : ~KeyMatches(k, call.pattern)
                /\ \A k \in DOMAIN call.before :
                       ~KeyMatches(k, call.pattern) => k \in DOMAIN call.after
                /\ (/\ next <= Len(instLog)
                    /\ LoggedKey(next) \in DOMAIN call.before
                    /\ KeyMatches(LoggedKey(next), call.pattern))
                   => ~instLog[next].hit

==========================================================================
